---------------------------- MODULE Spec2Model ----------------------------
(***************************************************************************)
(* A model of the core of hvac_fan_gaits: the fan curve (fan.py), the      *)
(* operating-point grid search, the bisection speed solver and the         *)
(* discrete mode selector (controller.py), and the time simulation with    *)
(* its power model (simulate.py).                                          *)
(*                                                                         *)
(* Numbers.  The program computes in IEEE doubles.  The model computes in  *)
(* exact rational arithmetic: a number is a record [n |-> numerator,       *)
(* d |-> denominator] in lowest terms with d > 0, and the record with      *)
(* d = 0 is NaN (every comparison with it is false, every arithmetic       *)
(* result with it is NaN), so that rounding is the one thing idealised.    *)
(* Speeds are in units of 100 rpm, airflows in units of 100 cfm.           *)
(*                                                                         *)
(* A local value that the source computes once and uses several times is   *)
(* bound as  The({ e(x) : x \in {v} }),  which evaluates v once.            *)
(***************************************************************************)
EXTENDS Integers, Sequences, FiniteSets, TLC

(***************************************************************************)
(* Bounds of the model.                                                    *)
(***************************************************************************)
\* n_grid, the number of samples of the grid search (the source's default
\* is 800; the model samples a coarser grid)
NGrid == 5
\* iters, the number of bisection iterations (the source's default is 24)
MaxIters == 3
\* the longest timestamp series run_time_sim is given
MaxT == 2

\* the denominator of the guard 1e-9 used against division by zero
Eps9Den == 1000000000

(***************************************************************************)
(* Rational arithmetic.  The operations are functions, so that an          *)
(* argument is evaluated once, when the function is applied.               *)
(***************************************************************************)
Rats == [n : Int, d : Nat]

\* the element of a one-element set
The(S) == CHOOSE x \in S : TRUE

NaN == [n |-> 0, d |-> 0]

IsNaN(a) == a.d = 0

IAbs(a) == IF a < 0 THEN -a ELSE a

GCD[a \in Nat, b \in Nat] == IF b = 0 THEN a ELSE GCD[b, a % b]

LCM[a \in Nat, b \in Nat] == (a \div GCD[a, b]) * b

Reduced[n \in Int, d \in Int, g \in Nat] ==
    IF d < 0 THEN [n |-> -(n \div g), d |-> -(d \div g)]
    ELSE [n |-> n \div g, d |-> d \div g]

\* n/d in lowest terms, d # 0
Rat(n, d) == Reduced[n, d, GCD[IAbs(n), IAbs(d)]]

R(a) == [n |-> a, d |-> 1]

Zero == R(0)

One == R(1)

\* the numerators of a and b over the common denominator l
Over[a \in Rats, b \in Rats, l \in Nat] ==
    [x |-> a.n * (l \div a.d), y |-> b.n * (l \div b.d), l |-> l]

Common[a \in Rats, b \in Rats] == Over[a, b, LCM[a.d, b.d]]

SumOf[c \in [x : Int, y : Int, l : Nat]] == Rat(c.x + c.y, c.l)

RatAdd[a \in Rats, b \in Rats] ==
    IF IsNaN(a) \/ IsNaN(b) THEN NaN ELSE SumOf[Common[a, b]]

RAdd(a, b) == RatAdd[a, b]

RatNeg[a \in Rats] == [n |-> -a.n, d |-> a.d]

RNeg(a) == RatNeg[a]

RSub(a, b) == RatAdd[a, RatNeg[b]]

CrossMul[a \in Rats, b \in Rats, g1 \in Nat, g2 \in Nat] ==
    Rat((a.n \div g1) * (b.n \div g2), (a.d \div g2) * (b.d \div g1))

RatMul[a \in Rats, b \in Rats] ==
    IF IsNaN(a) \/ IsNaN(b) THEN NaN
    ELSE CrossMul[a, b, GCD[IAbs(a.n), b.d], GCD[IAbs(b.n), a.d]]

RMul(a, b) == RatMul[a, b]

\* a / b; the callers guard b # 0
RatDiv[a \in Rats, b \in Rats] ==
    IF IsNaN(a) \/ IsNaN(b) \/ b.n = 0 THEN NaN
    ELSE RatMul[a, Rat(b.d, b.n)]

RDiv(a, b) == RatDiv[a, b]

RatPow[a \in Rats, e \in Nat] == IF e = 0 THEN One ELSE RatMul[a, RatPow[a, e - 1]]

RPow(a, e) == RatPow[a, e]

LessOf[c \in [x : Int, y : Int, l : Nat]] == c.x < c.y

RatLt[a \in Rats, b \in Rats] == ~IsNaN(a) /\ ~IsNaN(b) /\ LessOf[Common[a, b]]

RLt(a, b) == RatLt[a, b]

RLeq(a, b) == RatLt[a, b] \/ (a = b /\ ~IsNaN(a))

RGt(a, b) == RatLt[b, a]

RGeq(a, b) == RLeq(b, a)

RatAbs[a \in Rats] == [n |-> IAbs(a.n), d |-> a.d]

RAbs(a) == RatAbs[a]

\* Python's max(a, b): a unless b > a
PyMaxOf[a \in Rats, b \in Rats] == IF RatLt[a, b] THEN b ELSE a

PyMax(a, b) == PyMaxOf[a, b]

\* numpy's maximum and clip
NpMaximumOf[a \in Rats, b \in Rats] ==
    IF IsNaN(a) \/ IsNaN(b) THEN NaN ELSE IF RatLt[a, b] THEN b ELSE a

NpMaximum(a, b) == NpMaximumOf[a, b]

NpClipOf[a \in Rats, lo_ \in Rats, hi_ \in Rats] ==
    IF IsNaN(a) THEN NaN ELSE IF RatLt[a, lo_] THEN lo_ ELSE IF RatLt[hi_, a] THEN hi_ ELSE a

NpClip(a, lo_, hi_) == NpClipOf[a, lo_, hi_]

\* the literal 1e-9, and the comparisons with it (a.n * Eps9Den is never formed)
Eps9 == [n |-> 1, d |-> Eps9Den]

LeqEps9Of[a \in Rats] == ~IsNaN(a) /\ a.n <= a.d \div Eps9Den

LeqEps9(a) == LeqEps9Of[a]

\* max(a, 1e-9)
MaxEps9Of[a \in Rats] == IF IsNaN(a) \/ ~LeqEps9Of[a] \/ a = Eps9 THEN a ELSE Eps9

MaxEps9(a) == MaxEps9Of[a]

(***************************************************************************)
(* fan.py: FanCurve.                                                       *)
(***************************************************************************)
FanCurve(Q_free, dP_shut, N_ref, n_shape) ==
    [Q_free_ref_cfm |-> Q_free, dP_shut_ref_Pa |-> dP_shut,
     N_ref_rpm |-> N_ref, n_shape |-> n_shape]

\* Q_free = Q_bep / 0.6, dP_shut = dP_bep / 0.6
from_bep(Q_bep_cfm, dP_bep_Pa, N_ref_rpm, n_shape) ==
    FanCurve(RDiv(Q_bep_cfm, Rat(3, 5)), RDiv(dP_bep_Pa, Rat(3, 5)), N_ref_rpm, n_shape)

free_delivery_cfm(self, N_rpm) ==
    RMul(self.Q_free_ref_cfm, RDiv(N_rpm, self.N_ref_rpm))

shutoff_pressure_Pa(self, N_rpm) ==
    RMul(self.dP_shut_ref_Pa, RPow(RDiv(N_rpm, self.N_ref_rpm), 2))

\* the pressure rise at airflow Q_cfm and speed N_rpm, clipped to >= 0
dP_at(self, Q_cfm, N_rpm) ==
    LET Q_free  == free_delivery_cfm(self, N_rpm)
        dP_shut == shutoff_pressure_Pa(self, N_rpm)
        x       == NpClip(RDiv(Q_cfm, MaxEps9(Q_free)), Zero, R(10))
    IN  RMul(dP_shut, NpMaximum(RSub(One, RPow(x, self.n_shape)), Zero))

(***************************************************************************)
(* controller.py: operating_point_Q.                                       *)
(***************************************************************************)
\* np.linspace(0.0, Q_free, n_grid)[j], j = 0 .. n_grid - 1
Linspace(Q_free, j) == RMul(Q_free, Rat(j, NGrid - 1))

\* the system curve left out of the error
GridErr_nosys(fan_, k, rpm, Q_free, j) ==
    RAbs(dP_at(fan_, Linspace(Q_free, j), rpm))

\* |dP_fan - dP_sys| at sample j
GridErr(fan_, k, rpm, Q_free, j) ==
    LET Q == Linspace(Q_free, j)
    IN  RAbs(RSub(dP_at(fan_, Q, rpm), RMul(k, RPow(Q, 2))))

\* the arrays of one value per sample
GridArrays == [0..(NGrid - 1) -> Rats]

\* np.argmin: the first index at which the minimum of err is attained; the
\* first NaN when there is one
ArgMin[err \in GridArrays] ==
    IF \E j \in DOMAIN err : IsNaN(err[j])
    THEN CHOOSE j \in DOMAIN err :
             IsNaN(err[j]) /\ \A m \in DOMAIN err : m < j => ~IsNaN(err[m])
    ELSE CHOOSE j \in DOMAIN err :
             /\ \A m \in DOMAIN err : RLeq(err[j], err[m])
             /\ \A m \in DOMAIN err : m < j => RLt(err[j], err[m])

\* np.argmin compares the errors as rounded to double precision.  Where the
\* exact errors of several samples are equal and least, their rounded values
\* can compare either way, differently from one speed to the next: each of
\* these samples is an index np.argmin can return
RoundedArgMins[err \in GridArrays] ==
    IF \E j \in DOMAIN err : IsNaN(err[j])
    THEN {ArgMin[err]}
    ELSE {j \in DOMAIN err : \A m \in DOMAIN err : RLeq(err[j], err[m])}

\* the airflows operating_point_Q can return once rounding is accounted for:
\* the one value below, unless the exact errors tie for the minimum
operating_point_Q_rounded(fan_, k, rpm) ==
    The({ IF LeqEps9(Q_free) THEN {Zero}
          ELSE {Linspace(Q_free, j) :
                   j \in RoundedArgMins[[m \in 0..(NGrid - 1) |->
                                            GridErr(fan_, k, rpm, Q_free, m)]]}
          : Q_free \in {free_delivery_cfm(fan_, rpm)} })

\* the last of the samples of least error in place of the first
operating_point_Q_lastmin(fan_, k, rpm) ==
    CHOOSE Q \in operating_point_Q_rounded(fan_, k, rpm) :
        \A Q2 \in operating_point_Q_rounded(fan_, k, rpm) : RLeq(Q2, Q)

operating_point_Q(fan_, k, rpm) ==
    The({ IF LeqEps9(Q_free) THEN Zero
          ELSE Linspace(Q_free,
                        ArgMin[[j \in 0..(NGrid - 1) |-> GridErr(fan_, k, rpm, Q_free, j)]])
          : Q_free \in {free_delivery_cfm(fan_, rpm)} })

(***************************************************************************)
(* controller.py: solve_rpm_for_Q.                                         *)
(***************************************************************************)
\* the bracket cut at a third of its width
Midpoint_third(lo_, hi_) == RAdd(lo_, RMul(Rat(1, 3), RSub(hi_, lo_)))

\* mid = 0.5 * (lo + hi)
Midpoint(lo_, hi_) == RMul(Rat(1, 2), RAdd(lo_, hi_))

\* the high clamp left out
ClampCase_nohigh(Q_target, Q_lo_, Q_hi_, eps_cfm) ==
    IF RLeq(Q_target, RAdd(Q_lo_, eps_cfm)) THEN "lo" ELSE "bisect"

\* the two clamp tests, the high one first
ClampCase_hifirst(Q_target, Q_lo_, Q_hi_, eps_cfm) ==
    IF RGeq(Q_target, RSub(Q_hi_, eps_cfm)) THEN "hi"
    ELSE IF RLeq(Q_target, RAdd(Q_lo_, eps_cfm)) THEN "lo"
    ELSE "bisect"

\* the two clamp tests, the low one first
ClampCase(Q_target, Q_lo_, Q_hi_, eps_cfm) ==
    IF RLeq(Q_target, RAdd(Q_lo_, eps_cfm)) THEN "lo"
    ELSE IF RGeq(Q_target, RSub(Q_hi_, eps_cfm)) THEN "hi"
    ELSE "bisect"

\* the band of the early return twice as wide as the tolerance
BisectCase_wide(Qm, Q_target, eps_cfm) ==
    IF RLt(Qm, RSub(Q_target, RMul(R(2), eps_cfm))) THEN "lo"
    ELSE IF RGt(Qm, RAdd(Q_target, RMul(R(2), eps_cfm))) THEN "hi"
    ELSE "ret"

\* the three-way test of one bisection iteration on the midpoint's airflow
BisectCase(Qm, Q_target, eps_cfm) ==
    IF RLt(Qm, RSub(Q_target, eps_cfm)) THEN "lo"
    ELSE IF RGt(Qm, RAdd(Q_target, eps_cfm)) THEN "hi"
    ELSE "ret"

\* the airflow of the bracket's upper end returned with the midpoint
ExhaustedResult_stale(fan_, k, lo_, hi_) ==
    <<Midpoint(lo_, hi_), operating_point_Q(fan_, k, hi_)>>

\* what is returned once the loop has run all its iterations
ExhaustedResult(fan_, k, lo_, hi_) ==
    The({ <<rpm, operating_point_Q(fan_, k, rpm)>> : rpm \in {Midpoint(lo_, hi_)} })

\* the loop with n iterations left
RECURSIVE BisectLoop(_, _, _, _, _, _, _)
BisectLoop(fan_, k, Q_target, eps_cfm, lo_, hi_, n) ==
    IF n = 0 THEN ExhaustedResult(fan_, k, lo_, hi_)
    ELSE The({ The({ IF BisectCase(Qm, Q_target, eps_cfm) = "lo"
                      THEN BisectLoop(fan_, k, Q_target, eps_cfm, mid, hi_, n - 1)
                     ELSE IF BisectCase(Qm, Q_target, eps_cfm) = "hi"
                      THEN BisectLoop(fan_, k, Q_target, eps_cfm, lo_, mid, n - 1)
                     ELSE <<mid, Qm>>
                     : Qm \in {operating_point_Q(fan_, k, mid)} })
               : mid \in {Midpoint(lo_, hi_)} })

\* returns <<rpm, Qop>>
solve_rpm_for_Q(fan_, k, Q_target, rpm_lo_, rpm_hi_, eps_cfm) ==
    The({ IF ClampCase(Q_target, Q_lo_, Q_hi_, eps_cfm) = "lo" THEN <<rpm_lo_, Q_lo_>>
          ELSE IF ClampCase(Q_target, Q_lo_, Q_hi_, eps_cfm) = "hi" THEN <<rpm_hi_, Q_hi_>>
          ELSE BisectLoop(fan_, k, Q_target, eps_cfm, rpm_lo_, rpm_hi_, MaxIters)
          : Q_lo_ \in {operating_point_Q(fan_, k, rpm_lo_)},
            Q_hi_ \in {operating_point_Q(fan_, k, rpm_hi_)} })

(***************************************************************************)
(* simulate.py: power_model_convex.                                        *)
(***************************************************************************)
\* denom = x_bep**2 - x_bep if abs(x_bep**2 - x_bep) > 1e-9 else -1e-3
PowerDenom[sq \in Rats] == IF ~IsNaN(sq) /\ ~LeqEps9(RAbs(sq)) THEN sq ELSE Rat(-1, 1000)

\* <<b1, b2>> from the first b2: the two constraints solved, or the fallback
\* curvature when b2 <= 0 or b1 + 2*b2 <= 0
PowerCoeffs[p0 \in Rats, gamma_free \in Rats, b2 \in Rats] ==
    IF RLeq(b2, Zero) \/ RLeq(RAdd(RSub(RSub(gamma_free, p0), b2), RMul(R(2), b2)), Zero)
    THEN The({ <<RSub(RSub(gamma_free, p0), fb), fb>>
               : fb \in {PyMax(RMul(Rat(2, 10), RSub(gamma_free, One)), Rat(1, 1000))} })
    ELSE <<RSub(RSub(gamma_free, p0), b2), b2>>

\* the curvature left out: the line through the idle and free-delivery points
power_model_linear(fan_, Q_cfm, rpm, P_bep_ref_W, N_ref_rpm, idle_frac, gamma_free, x_bep) ==
    The({ RMul(RMul(P_bep_ref_W, RPow(RDiv(rpm, N_ref_rpm), 3)),
               RAdd(idle_frac, RMul(RSub(gamma_free, idle_frac), x)))
          : x \in {NpClip(RDiv(Q_cfm, MaxEps9(free_delivery_cfm(fan_, rpm))), Zero, One)} })

power_model_convex(fan_, Q_cfm, rpm, P_bep_ref_W, N_ref_rpm, idle_frac, gamma_free, x_bep) ==
    The({ RMul(RMul(P_bep_ref_W, RPow(RDiv(rpm, N_ref_rpm), 3)),
               RAdd(RAdd(idle_frac, RMul(b[1], x)), RMul(b[2], RPow(x, 2))))
          : x \in {NpClip(RDiv(Q_cfm, MaxEps9(free_delivery_cfm(fan_, rpm))), Zero, One)},
            b \in {PowerCoeffs[idle_frac, gamma_free,
                               RDiv(RSub(RSub(One, idle_frac),
                                         RMul(x_bep, RSub(gamma_free, idle_frac))),
                                    PowerDenom[RSub(RPow(x_bep, 2), x_bep)])]} })

\* the keyword defaults of power_model_convex: idle_frac, gamma_free, x_bep
DefaultIdleFrac == Rat(22, 100)

DefaultGammaFree == R(2)

DefaultXBep == Rat(60, 100)

\* power_fn as run_time_sim hands it to choose_mode_min_power: the function
\* itself, so that the selector's five-argument call takes the keyword defaults
power_fn(fan_, Q_cfm, rpm, P_bep_ref_W, N_ref_rpm) ==
    power_model_convex(fan_, Q_cfm, rpm, P_bep_ref_W, N_ref_rpm,
                       DefaultIdleFrac, DefaultGammaFree, DefaultXBep)

(***************************************************************************)
(* controller.py: choose_mode_min_power.                                   *)
(***************************************************************************)
\* (rpm, Qop, P) of one speed
Triple(fan_, k, rpm, P_bep_ref_W, N_ref_rpm) ==
    The({ [rpm |-> rpm, Qop |-> Q, P |-> power_fn(fan_, Q, rpm, P_bep_ref_W, N_ref_rpm)]
          : Q \in {operating_point_Q(fan_, k, rpm)} })

\* triples.append((rpm, Qop, P)) for the first n speeds
RECURSIVE TriplesUpTo(_, _, _, _, _, _)
TriplesUpTo(fan_, k, speeds_rpm, P_bep_ref_W, N_ref_rpm, n) ==
    IF n = 0 THEN << >>
    ELSE Append(TriplesUpTo(fan_, k, speeds_rpm, P_bep_ref_W, N_ref_rpm, n - 1),
                Triple(fan_, k, speeds_rpm[n], P_bep_ref_W, N_ref_rpm))

\* (rpm, Qop, P) for all modes, in the iteration order of speeds_rpm
Triples(fan_, k, speeds_rpm, P_bep_ref_W, N_ref_rpm) ==
    TriplesUpTo(fan_, k, speeds_rpm, P_bep_ref_W, N_ref_rpm, Len(speeds_rpm))

\* feasible = meets demand within tolerance
IsFeasible(Qop, Q_target, eps_cfm) == RGeq(Qop, RSub(Q_target, eps_cfm))

\* the first feasible element, whatever its power
MinByPower_first(feas) == feas[1]

\* min(feas, key = P): the first element of least power
MinByPower(feas) ==
    feas[CHOOSE j \in DOMAIN feas :
            /\ \A m \in DOMAIN feas : RLeq(feas[j].P, feas[m].P)
            /\ \A m \in DOMAIN feas : m < j => RLt(feas[j].P, feas[m].P)]

\* min in place of max: the first element of least airflow
MaxByAirflow_least(triples) ==
    triples[CHOOSE j \in DOMAIN triples :
            /\ \A m \in DOMAIN triples : RLeq(triples[j].Qop, triples[m].Qop)
            /\ \A m \in DOMAIN triples : m < j => RLt(triples[j].Qop, triples[m].Qop)]

\* max(triples, key = Qop): the first element of greatest airflow
MaxByAirflow(triples) ==
    triples[CHOOSE j \in DOMAIN triples :
            /\ \A m \in DOMAIN triples : RLeq(triples[m].Qop, triples[j].Qop)
            /\ \A m \in DOMAIN triples : m < j => RLt(triples[m].Qop, triples[j].Qop)]

\* the feasible ones among the first n triples, in order
RECURSIVE FeasibleUpTo(_, _, _, _)
FeasibleUpTo(triples, Q_target, eps_cfm, n) ==
    IF n = 0 THEN << >>
    ELSE IF IsFeasible(triples[n].Qop, Q_target, eps_cfm)
    THEN Append(FeasibleUpTo(triples, Q_target, eps_cfm, n - 1), triples[n])
    ELSE FeasibleUpTo(triples, Q_target, eps_cfm, n - 1)

\* feas = [z for z in triples if z.Qop >= Q_target - eps_cfm]
Feasible(triples, Q_target, eps_cfm) ==
    FeasibleUpTo(triples, Q_target, eps_cfm, Len(triples))

\* the selection once the triples are built: returns <<rpm, Qop>>
SelectFrom(triples, Q_target, eps_cfm) ==
    The({ The({ <<z.rpm, z.Qop>>
                : z \in {IF feas # << >> THEN MinByPower(feas) ELSE MaxByAirflow(triples)} })
          : feas \in {Feasible(triples, Q_target, eps_cfm)} })

\* returns <<rpm, Qop>>
choose_mode_min_power(fan_, k, speeds_rpm, Q_target, eps_cfm, P_bep_ref_W, N_ref_rpm) ==
    The({ The({ The({ <<z.rpm, z.Qop>>
                      : z \in {IF feas # << >> THEN MinByPower(feas)
                               ELSE MaxByAirflow(triples)} })
                : feas \in {Feasible(triples, Q_target, eps_cfm)} })
          : triples \in {Triples(fan_, k, speeds_rpm, P_bep_ref_W, N_ref_rpm)} })

(***************************************************************************)
(* simulate.py: run_time_sim.                                              *)
(*                                                                         *)
(* The inputs fan, t, Q_demand, k_t and the keyword arguments cfg are      *)
(* fixed at the call.  pc is the position in the function: "entry" before  *)
(* the storage is allocated, "loop" in the for loop with i timesteps       *)
(* completed, "done" after the return, "error" after an exception.  Row r  *)
(* of a column (r = 0 .. T - 1 in the source) is element r + 1 here.       *)
(***************************************************************************)
VARIABLES fan, t, Q_demand, k_t, cfg, pc, i, data, df, metrics

simVars == <<t, Q_demand, k_t, cfg, pc, i, data, df, metrics>>

(***************************************************************************)
(* A call of solve_rpm_for_Q taken one bisection iteration at a time: arg  *)
(* holds its arguments, spc its position ("call" at entry, "loop" at the   *)
(* head of the for loop, "ret_lo", "ret_hi", "ret_mid", "ret_end" after    *)
(* the return statement of that name), lo, hi, Q_lo, Q_hi its locals,      *)
(* iter the iterations completed, ret the pair returned.  trail records    *)
(* the midpoint airflows evaluated so far, evals counts the calls of       *)
(* operating_point_Q.                                                      *)
(***************************************************************************)
VARIABLES arg, spc, lo, hi, iter, Q_lo, Q_hi, ret, trail, evals

solveVars == <<arg, spc, lo, hi, iter, Q_lo, Q_hi, ret, trail, evals>>

(***************************************************************************)
(* Evaluations of operating_point_Q for one fan and one resistance:        *)
(* probe_k is the resistance, Q_seen maps each speed evaluated so far to   *)
(* the airflow returned.  mode_sel is a call of choose_mode_min_power on   *)
(* speeds evaluated so far: its speeds_rpm and Q_target and the speed and  *)
(* airflow it returned (called is FALSE before the call).                  *)
(***************************************************************************)
VARIABLES probe_k, Q_seen, mode_sel

probeVars == <<probe_k, Q_seen, mode_sel>>

(***************************************************************************)
(* A call of power_model_convex: power_args holds the shape parameters     *)
(* idle_frac, gamma_free and x_bep, power_ret the speed and airflow of the *)
(* last call with the power it returned (called is FALSE before the first).*)
(***************************************************************************)
VARIABLES power_args, power_ret

powerVars == <<power_args, power_ret>>

vars == <<fan, simVars, solveVars, probeVars, powerVars>>

None == "None"

\* the per-strategy output columns
Strategies == {"fixed", "modes", "var"}

Col(name, prefix) == name \o "_" \o prefix

OutCols == {Col(c, p) : c \in {"Q", "rpm", "P", "c", "s", "o"}, p \in Strategies}

SeqMin(s) == CHOOSE x \in {s[j] : j \in DOMAIN s} : \A j \in DOMAIN s : RLeq(x, s[j])

SeqMax(s) == CHOOSE x \in {s[j] : j \in DOMAIN s} : \A j \in DOMAIN s : RLeq(s[j], x)

\* rpm_lo, rpm_hi = rpm_bounds if rpm_bounds else (min(speeds_rpm), max(speeds_rpm))
rpm_lo(c) == IF c.rpm_bounds # None THEN c.rpm_bounds[1] ELSE SeqMin(c.speeds_rpm)

rpm_hi(c) == IF c.rpm_bounds # None THEN c.rpm_bounds[2] ELSE SeqMax(c.speeds_rpm)

T == Len(t)

\* the first difference taken for the median
Median_first(s) == s[1]

\* np.median(np.diff(t)) if len(t) > 1 else 1.0
Diff(s) == [j \in 1..(Len(s) - 1) |-> RSub(s[j + 1], s[j])]

Median(s) ==
    LET srt == SortSeq(s, RLt)
        n   == Len(s)
    IN  IF n % 2 = 1 THEN srt[(n + 1) \div 2]
        ELSE RMul(Rat(1, 2), RAdd(srt[n \div 2], srt[n \div 2 + 1]))

dt == IF Len(t) > 1 THEN Median(Diff(t)) ELSE One

\* np.zeros(T), np.full(T, v), np.zeros(T, dtype = bool)
Full(n, v) == [j \in 1..n |-> v]

Storage ==
    [c \in {"t", "Qd", "k"} \cup OutCols |->
        IF c = "t" THEN t
        ELSE IF c = "Qd" THEN Q_demand
        ELSE IF c = "k" THEN k_t
        ELSE IF c = "rpm_fixed" THEN Full(T, cfg.fixed_rpm)
        ELSE IF c \in {"c_fixed", "c_modes", "c_var"} THEN Full(T, FALSE)
        ELSE Full(T, Zero)]

\* compliance, shortfall and oversupply of a delivered airflow Q against Qd
Compliant(Q, Qd, eps_cfm) == RLeq(RAbs(RSub(Q, Qd)), eps_cfm)

\* the shortfall without the tolerance
Shortfall_noeps(Q, Qd, eps_cfm) == PyMax(Zero, RSub(Qd, Q))

Shortfall(Q, Qd, eps_cfm) == PyMax(Zero, RSub(RSub(Qd, Q), eps_cfm))

Oversupply(Q, Qd, eps_cfm) == PyMax(Zero, RSub(RSub(Q, Qd), eps_cfm))

\* the power written to the frame: the configured idle_frac, gamma_free, x_bep
FramePower(fan_, c, Q, rpm) ==
    power_model_convex(fan_, Q, rpm, c.P_bep_ref_W, c.N_ref_rpm,
                       c.idle_frac, c.gamma_free, c.x_bep)

\* <<rpm, Q>> of each strategy at resistance k and demand Qd under the
\* keyword arguments c
FixedChoice(fan_, c, k, Qd) == <<c.fixed_rpm, operating_point_Q(fan_, k, c.fixed_rpm)>>

ModesChoice(fan_, c, k, Qd) ==
    choose_mode_min_power(fan_, k, c.speeds_rpm, Qd, c.eps_cfm, c.P_bep_ref_W, c.N_ref_rpm)

VarChoice(fan_, c, k, Qd) ==
    solve_rpm_for_Q(fan_, k, Qd, rpm_lo(c), rpm_hi(c), c.eps_cfm)

\* the values one timestep assigns to its row, by column, given the <<rpm, Q>>
\* of the fixed (f), mode-switch (m) and variable (v) strategies
RowValues(fan_, c, f, m, v, Qd) ==
    LET eps == c.eps_cfm
    IN  [Q_fixed   |-> f[2],
         P_fixed   |-> FramePower(fan_, c, f[2], f[1]),
         c_fixed   |-> Compliant(f[2], Qd, eps),
         s_fixed   |-> Shortfall(f[2], Qd, eps),
         o_fixed   |-> Oversupply(f[2], Qd, eps),
         rpm_modes |-> m[1],
         Q_modes   |-> m[2],
         P_modes   |-> FramePower(fan_, c, m[2], m[1]),
         c_modes   |-> Compliant(m[2], Qd, eps),
         s_modes   |-> Shortfall(m[2], Qd, eps),
         o_modes   |-> Oversupply(m[2], Qd, eps),
         rpm_var   |-> v[1],
         Q_var     |-> v[2],
         P_var     |-> FramePower(fan_, c, v[2], v[1]),
         c_var     |-> Compliant(v[2], Qd, eps),
         s_var     |-> Shortfall(v[2], Qd, eps),
         o_var     |-> Oversupply(v[2], Qd, eps)]

\* the body of one loop iteration as a function of its inputs
Timestep(fan_, c, k, Qd) ==
    The({ RowValues(fan_, c, f, m, v, Qd)
          : f \in {FixedChoice(fan_, c, k, Qd)},
            m \in {ModesChoice(fan_, c, k, Qd)},
            v \in {VarChoice(fan_, c, k, Qd)} })

\* data[c][:] = v in place of data[c][i] = v
WriteRow_all(d, r, vals) ==
    [c \in DOMAIN d |-> IF c \in DOMAIN vals THEN Full(Len(d[c]), vals[c]) ELSE d[c]]

\* data[c][r] = v for every column c that vals assigns
WriteRow(d, r, vals) ==
    [c \in DOMAIN d |-> IF c \in DOMAIN vals THEN [d[c] EXCEPT ![r] = vals[c]] ELSE d[c]]

\* pd.DataFrame(data): one row per index, every column of the same length
ColumnsAligned(d) == \A c \in DOMAIN d : Len(d[c]) = Len(d["t"])

DataFrame(d) == [r \in 1..Len(d["t"]) |-> [c \in DOMAIN d |-> d[c][r]]]

\* the aggregates of one strategy over the frame columns
RECURSIVE SumSeq(_)
SumSeq(s) == IF s = << >> THEN Zero ELSE RAdd(Head(s), SumSeq(Tail(s)))

CountTrue(s) == Cardinality({j \in DOMAIN s : s[j]})

PerHour(col) == RDiv(RMul(SumSeq(col), dt), R(3600))

Agg(d, prefix) ==
    LET Wh              == PerHour(d[Col("P", prefix)])
        cfmh_delivered  == PerHour(d[Col("Q", prefix)])
        cfmh_shortfall  == PerHour(d[Col("s", prefix)])
        cfmh_oversupply == PerHour(d[Col("o", prefix)])
        c               == d[Col("c", prefix)]
    IN  [Wh              |-> Wh,
         cfmh_delivered  |-> cfmh_delivered,
         cfmh_shortfall  |-> cfmh_shortfall,
         cfmh_oversupply |-> cfmh_oversupply,
         compliance_pct  |-> RMul(R(100), RDiv(R(CountTrue(c)), R(Len(c)))),
         SFP             |-> RDiv(Wh, MaxEps9(cfmh_delivered)),
         objective       |-> RAdd(Wh, RMul(cfg.lambda_shortfall, cfmh_shortfall))]

Metrics(d) ==
    [fixed |-> Agg(d, "fixed"), modes |-> Agg(d, "modes"), var |-> Agg(d, "var"),
     eps_cfm |-> cfg.eps_cfm, lambda_shortfall |-> cfg.lambda_shortfall]

(***************************************************************************)
(* The calls of run_time_sim the model explores.                           *)
(***************************************************************************)
\* reference free delivery 400 cfm, shutoff pressure 2, reference speed 800 rpm
SimFan == FanCurve(R(4), R(2), R(8), 2)

\* below, near and above what the speed sets deliver, and a non-finite value
Demands == {R(1), Rat(13, 4), R(5), NaN}

Resistances == {Rat(1, 16), Rat(1, 2)}

Config(speeds, bounds, idle, gamma, xbep) ==
    [speeds_rpm |-> speeds, fixed_rpm |-> R(8), P_bep_ref_W |-> R(4), N_ref_rpm |-> R(8),
     idle_frac |-> idle, gamma_free |-> gamma, x_bep |-> xbep,
     rpm_bounds |-> bounds, eps_cfm |-> Rat(1, 4), lambda_shortfall |-> Rat(2, 5)]

\* the defaults of the power model, with the bounds left to the speed set
ConfigDefault ==
    Config(<<R(4), R(8), R(12)>>, None, DefaultIdleFrac, DefaultGammaFree, DefaultXBep)

\* a speed set given in descending order, with explicit bounds
ConfigDescending ==
    Config(<<R(12), R(8), R(4)>>, <<R(4), R(20)>>, DefaultIdleFrac, DefaultGammaFree, DefaultXBep)

\* a power model of its own: idle_frac = 0, gamma_free = 5, x_bep = 0.8
ConfigSteep ==
    Config(<<R(4), R(8), R(12)>>, <<R(4), R(20)>>, Zero, R(5), Rat(4, 5))

Configs == {ConfigDefault, ConfigDescending, ConfigSteep}

\* how the lengths of the three series relate
Shapes == {"equal", "k_short", "k_long", "Qd_short", "Qd_long"}

Shaped(s, shape, short, long, pad) ==
    IF shape = short THEN SubSeq(s, 1, Len(s) - 1)
    ELSE IF shape = long THEN Append(s, pad)
    ELSE s

\* Timestep is a pure function of its arguments: its values over the inputs
\* above are tabulated, so that each is computed once
TimestepTable ==
    {[c |-> c, k |-> k, Qd |-> Qd, row |-> Timestep(SimFan, c, k, Qd)]
        : c \in Configs, k \in Resistances, Qd \in Demands}

\* the bisection bracket warm-started at the speed of the row before
StepValues_warm(k, Qd) ==
    IF i = 0 THEN Timestep(fan, cfg, k, Qd)
    ELSE Timestep(fan, [cfg EXCEPT !.rpm_bounds = <<data.rpm_var[i], rpm_hi(cfg)>>], k, Qd)

\* what the loop body computes at resistance k and demand Qd
StepValues(k, Qd) ==
    IF fan = SimFan /\ \E e \in TimestepTable : e.c = cfg /\ e.k = k /\ e.Qd = Qd
    THEN (CHOOSE e \in TimestepTable : e.c = cfg /\ e.k = k /\ e.Qd = Qd).row
    ELSE Timestep(fan, cfg, k, Qd)

\* the other parts of the model at rest
SimIdle ==
    /\ t = << >> /\ Q_demand = << >> /\ k_t = << >> /\ cfg = None
    /\ pc = "idle" /\ i = 0 /\ data = << >> /\ df = << >> /\ metrics = << >>

SolveIdle ==
    /\ arg = None /\ spc = "idle" /\ lo = Zero /\ hi = Zero /\ iter = 0
    /\ Q_lo = Zero /\ Q_hi = Zero /\ ret = << >> /\ trail = << >> /\ evals = 0

NotSelected ==
    [called |-> FALSE, speeds_rpm |-> << >>, Q_target |-> Zero, rpm |-> Zero, Qop |-> Zero]

ProbeIdle == probe_k = Zero /\ Q_seen = << >> /\ mode_sel = NotSelected

NotCalled == [called |-> FALSE, rpm |-> Zero, Q_cfm |-> Zero, P |-> Zero]

PowerIdle == power_args = None /\ power_ret = NotCalled

(***************************************************************************)
(* The steps of run_time_sim.                                              *)
(***************************************************************************)
\* the bounds, dt and T are taken and the storage is allocated
Enter ==
    /\ pc = "entry"
    /\ pc' = "loop"
    /\ i' = 0
    /\ data' = Storage
    /\ UNCHANGED <<fan, t, Q_demand, k_t, cfg, df, metrics, solveVars, probeVars, powerVars>>

\* one iteration of the loop: k_t[i] and Q_demand[i] are read, the three
\* strategies are evaluated and row i of every output column is assigned
Step ==
    /\ pc = "loop"
    /\ i < T
    /\ i < Len(k_t)
    /\ i < Len(Q_demand)
    /\ data' = WriteRow(data, i + 1, StepValues(k_t[i + 1], Q_demand[i + 1]))
    /\ i' = i + 1
    /\ UNCHANGED <<fan, t, Q_demand, k_t, cfg, pc, df, metrics, solveVars, probeVars, powerVars>>

\* k_t[i] or Q_demand[i] is out of range: IndexError leaves the loop
StepIndexError ==
    /\ pc = "loop"
    /\ i < T
    /\ (i >= Len(k_t) \/ i >= Len(Q_demand))
    /\ pc' = "error"
    /\ UNCHANGED <<fan, t, Q_demand, k_t, cfg, i, data, df, metrics, solveVars, probeVars, powerVars>>

\* after the loop: the frame is built, the metrics are reduced and returned
Return ==
    /\ pc = "loop"
    /\ i = T
    /\ ColumnsAligned(data)
    /\ df' = DataFrame(data)
    /\ metrics' = Metrics(data)
    /\ pc' = "done"
    /\ UNCHANGED <<fan, t, Q_demand, k_t, cfg, i, data, solveVars, probeVars, powerVars>>

\* after the loop: pd.DataFrame refuses columns of unequal length
FrameError ==
    /\ pc = "loop"
    /\ i = T
    /\ ~ColumnsAligned(data)
    /\ pc' = "error"
    /\ UNCHANGED <<fan, t, Q_demand, k_t, cfg, i, data, df, metrics, solveVars, probeVars, powerVars>>

\* timestamps at irregular intervals: three differences whose median is
\* neither the first nor the mean, and two differences
IrregularTimes == {<<R(0), R(5), R(7), R(9)>>, <<R(0), R(1), R(3)>>}

\* the state at the call run_time_sim(SimFan, ts, Qd, ks, **c)
SimCall(ts, Qd, ks, c) ==
    /\ fan = SimFan
    /\ t = ts
    /\ Q_demand = Qd
    /\ k_t = ks
    /\ cfg = c
    /\ pc = "entry"
    /\ i = 0
    /\ data = << >>
    /\ df = << >>
    /\ metrics = << >>
    /\ SolveIdle
    /\ ProbeIdle
    /\ PowerIdle

\* a call: series of 0 .. MaxT timesteps one second apart, the series of
\* unequal lengths tried under the default configuration; or a longer series
\* at irregular timestamps, its demand alternating between two values at a
\* constant resistance
SimInit ==
    \/ \E n \in 0..MaxT, c \in Configs :
           \E shape \in (IF c = ConfigDefault THEN Shapes ELSE {"equal"}) :
               \E Qd0 \in [1..n -> Demands], k0 \in [1..n -> Resistances] :
                   SimCall([j \in 1..n |-> R(j - 1)],
                           Shaped(Qd0, shape, "Qd_short", "Qd_long", R(5)),
                           Shaped(k0, shape, "k_short", "k_long", Rat(1, 16)), c)
    \/ \E ts \in IrregularTimes, c \in Configs :
           \E a \in Demands, b \in Demands, k \in Resistances :
               SimCall(ts, [j \in 1..Len(ts) |-> IF j % 2 = 1 THEN a ELSE b],
                       [j \in 1..Len(ts) |-> k], c)

SimNext == Enter \/ Step \/ StepIndexError \/ Return \/ FrameError

Spec == SimInit /\ [][SimNext]_vars

(***************************************************************************)
(* The calls of solve_rpm_for_Q the model explores, one step at a time.    *)
(***************************************************************************)
\* no resistance, three duct resistances (at 19/104 two samples have the
\* same, least error), a blocked duct, a non-finite value
SolveResistances == {Zero, Rat(1, 16), Rat(19, 104), Rat(1, 2), R(64), NaN}

\* <<rpm_lo, rpm_hi>>: two ranges, a range from standstill, a narrow range,
\* a single speed, a reversed range
SolveBrackets ==
    {<<R(4), R(20)>>, <<R(5), R(20)>>, <<R(0), R(8)>>, <<R(8), R(9)>>, <<R(8), R(8)>>,
     <<R(12), R(4)>>}

SolveTargets ==
    {NaN, Zero, Rat(1, 8), R(1), Rat(13, 4), R(4), R(5), R(6), Rat(31, 4), R(8), R(11)}

SolveTolerances == {Rat(-1, 4), Zero, Rat(1, 4)}

Returned == {"ret_lo", "ret_hi", "ret_mid", "ret_end"}

SolveInit ==
    \E k \in SolveResistances, b \in SolveBrackets,
       Q_target \in SolveTargets, eps_cfm \in SolveTolerances :
        /\ fan = SimFan
        /\ arg = [k |-> k, Q_target |-> Q_target, rpm_lo |-> b[1], rpm_hi |-> b[2],
                  eps_cfm |-> eps_cfm]
        /\ spc = "call"
        /\ lo = Zero /\ hi = Zero /\ iter = 0
        /\ Q_lo = Zero /\ Q_hi = Zero
        /\ ret = << >>
        /\ trail = << >>
        /\ evals = 0
        /\ SimIdle
        /\ ProbeIdle
        /\ PowerIdle

\* Q_lo and Q_hi are evaluated and the low clamp returns
ClampLo ==
    /\ spc = "call"
    /\ \E ql \in {operating_point_Q(fan, arg.k, arg.rpm_lo)},
          qh \in {operating_point_Q(fan, arg.k, arg.rpm_hi)} :
           /\ ClampCase(arg.Q_target, ql, qh, arg.eps_cfm) = "lo"
           /\ Q_lo' = ql /\ Q_hi' = qh
           /\ ret' = <<arg.rpm_lo, ql>>
    /\ spc' = "ret_lo"
    /\ evals' = 2
    /\ UNCHANGED <<fan, arg, lo, hi, iter, trail, simVars, probeVars, powerVars>>

\* Q_lo and Q_hi are evaluated and the high clamp returns
ClampHi ==
    /\ spc = "call"
    /\ \E ql \in {operating_point_Q(fan, arg.k, arg.rpm_lo)},
          qh \in {operating_point_Q(fan, arg.k, arg.rpm_hi)} :
           /\ ClampCase(arg.Q_target, ql, qh, arg.eps_cfm) = "hi"
           /\ Q_lo' = ql /\ Q_hi' = qh
           /\ ret' = <<arg.rpm_hi, qh>>
    /\ spc' = "ret_hi"
    /\ evals' = 2
    /\ UNCHANGED <<fan, arg, lo, hi, iter, trail, simVars, probeVars, powerVars>>

\* Q_lo and Q_hi are evaluated, neither clamp applies: lo, hi = rpm_lo, rpm_hi
EnterLoop ==
    /\ spc = "call"
    /\ \E ql \in {operating_point_Q(fan, arg.k, arg.rpm_lo)},
          qh \in {operating_point_Q(fan, arg.k, arg.rpm_hi)} :
           /\ ClampCase(arg.Q_target, ql, qh, arg.eps_cfm) = "bisect"
           /\ Q_lo' = ql /\ Q_hi' = qh
    /\ lo' = arg.rpm_lo /\ hi' = arg.rpm_hi
    /\ spc' = "loop"
    /\ evals' = 2
    /\ UNCHANGED <<fan, arg, iter, ret, trail, simVars, probeVars, powerVars>>

\* the iteration not counted when lo moves (cut off after two evaluations
\* more than a call can make)
BisectLo_uncounted ==
    /\ spc = "loop" /\ iter < MaxIters /\ evals < MaxIters + 5
    /\ \E mid \in {Midpoint(lo, hi)} : \E Qm \in {operating_point_Q(fan, arg.k, mid)} :
           /\ BisectCase(Qm, arg.Q_target, arg.eps_cfm) = "lo"
           /\ lo' = mid
           /\ trail' = Append(trail, Qm)
    /\ evals' = evals + 1
    /\ UNCHANGED <<fan, arg, spc, hi, iter, Q_lo, Q_hi, ret, simVars, probeVars, powerVars>>

\* an iteration whose midpoint delivers too little: lo = mid
BisectLo ==
    /\ spc = "loop" /\ iter < MaxIters
    /\ \E mid \in {Midpoint(lo, hi)} : \E Qm \in {operating_point_Q(fan, arg.k, mid)} :
           /\ BisectCase(Qm, arg.Q_target, arg.eps_cfm) = "lo"
           /\ lo' = mid
           /\ trail' = Append(trail, Qm)
    /\ iter' = iter + 1
    /\ evals' = evals + 1
    /\ UNCHANGED <<fan, arg, spc, hi, Q_lo, Q_hi, ret, simVars, probeVars, powerVars>>

\* an iteration whose midpoint delivers too much: hi = mid
BisectHi ==
    /\ spc = "loop" /\ iter < MaxIters
    /\ \E mid \in {Midpoint(lo, hi)} : \E Qm \in {operating_point_Q(fan, arg.k, mid)} :
           /\ BisectCase(Qm, arg.Q_target, arg.eps_cfm) = "hi"
           /\ hi' = mid
           /\ trail' = Append(trail, Qm)
    /\ iter' = iter + 1
    /\ evals' = evals + 1
    /\ UNCHANGED <<fan, arg, spc, lo, Q_lo, Q_hi, ret, simVars, probeVars, powerVars>>

\* an iteration whose midpoint is within the tolerance: return mid, Qm
BisectHit ==
    /\ spc = "loop" /\ iter < MaxIters
    /\ \E mid \in {Midpoint(lo, hi)} : \E Qm \in {operating_point_Q(fan, arg.k, mid)} :
           /\ BisectCase(Qm, arg.Q_target, arg.eps_cfm) = "ret"
           /\ ret' = <<mid, Qm>>
           /\ trail' = Append(trail, Qm)
    /\ spc' = "ret_mid"
    /\ evals' = evals + 1
    /\ UNCHANGED <<fan, arg, lo, hi, iter, Q_lo, Q_hi, simVars, probeVars, powerVars>>

\* the loop has run all its iterations: the midpoint of the last bracket
Exhausted ==
    /\ spc = "loop" /\ iter = MaxIters
    /\ ret' = ExhaustedResult(fan, arg.k, lo, hi)
    /\ spc' = "ret_end"
    /\ evals' = evals + 1
    /\ UNCHANGED <<fan, arg, lo, hi, iter, Q_lo, Q_hi, trail, simVars, probeVars, powerVars>>

SolveNext ==
    ClampLo \/ ClampHi \/ EnterLoop \/ BisectLo \/ BisectHi \/ BisectHit \/ Exhausted

SolveSpec == SolveInit /\ [][SolveNext]_vars

(***************************************************************************)
(* Calls of run_time_sim and calls of solve_rpm_for_Q, run to their end:   *)
(* the program is sequential, a call that can take a step takes it.  Every *)
(* step changes the position or a loop counter of its call.  The solver's  *)
(* calls are those of SolveInit for an undefined, a small, a middle and a  *)
(* large target, with every resistance, range and tolerance.               *)
(***************************************************************************)
LiveInit ==
    \/ SimInit
    \/ SolveInit /\ arg.Q_target \in {NaN, Rat(1, 8), Rat(13, 4), R(6)}

LiveNext == SimNext \/ SolveNext

LiveSpec == LiveInit /\ [][LiveNext]_vars /\ WF_<<pc, i, spc, iter, evals>>(LiveNext)

(***************************************************************************)
(* Evaluations of operating_point_Q at one resistance and several speeds.  *)
(***************************************************************************)
\* P_bep_ref_W and N_ref_rpm of the calls of the power model and the selector
PowerRef == R(4)

PowerNRef == R(8)

\* the quadratic fan above and a fan of cubic falloff
ProbeFans == {SimFan, FanCurve(R(4), R(2), R(8), 3)}

\* 19/104 puts the quadratic fan's intersection midway between two samples;
\* at 1/128 it lies beyond the last interior sample, at 64 before the first
ProbeResistances == {Zero, Rat(1, 128), Rat(1, 16), Rat(19, 104), Rat(1, 2), R(64)}

ProbeSpeeds == {R(0), R(4), R(8), R(9), R(12), R(20)}

\* speeds_rpm in ascending and in descending order
ProbeOrders ==
    {<<R(0), R(4), R(8), R(9), R(12), R(20)>>, <<R(20), R(12), R(9), R(8), R(4), R(0)>>}

ProbeTargets == {R(1), R(2), Rat(5, 2)}

ProbeTolerance == Rat(1, 4)

ProbeInit ==
    /\ fan \in ProbeFans
    /\ probe_k \in ProbeResistances
    /\ Q_seen = << >>
    /\ mode_sel = NotSelected
    /\ SimIdle
    /\ SolveIdle
    /\ PowerIdle

\* operating_point_Q(fan, probe_k, N) is evaluated at a speed not tried yet
Probe ==
    /\ ~mode_sel.called
    /\ \E N \in ProbeSpeeds \ DOMAIN Q_seen :
           \E Q \in operating_point_Q_rounded(fan, probe_k, N) :
               Q_seen' = [n \in DOMAIN Q_seen \cup {N} |-> IF n = N THEN Q ELSE Q_seen[n]]
    /\ UNCHANGED <<fan, probe_k, mode_sel, simVars, solveVars, powerVars>>

\* the triple of a speed evaluated: its airflow as returned, and the power
\* the selector computes for it
SeenTriple(N) ==
    [rpm |-> N, Qop |-> Q_seen[N],
     P |-> power_fn(fan, Q_seen[N], N, PowerRef, PowerNRef)]

\* choose_mode_min_power on the speeds evaluated so far, in one of the two
\* orders, with the operating points as they were returned
SelectMode ==
    /\ ~mode_sel.called
    /\ Q_seen # << >>
    /\ \E order \in ProbeOrders, Q_target \in ProbeTargets :
           \E speeds \in {SelectSeq(order, LAMBDA N : N \in DOMAIN Q_seen)} :
               \E z \in {SelectFrom([j \in DOMAIN speeds |-> SeenTriple(speeds[j])],
                                     Q_target, ProbeTolerance)} :
                   mode_sel' = [called |-> TRUE, speeds_rpm |-> speeds,
                                Q_target |-> Q_target, rpm |-> z[1], Qop |-> z[2]]
    /\ UNCHANGED <<fan, probe_k, Q_seen, simVars, solveVars, powerVars>>

ProbeNext == Probe \/ SelectMode

ProbeSpec == ProbeInit /\ [][ProbeNext]_vars

(***************************************************************************)
(* Calls of power_model_convex under one choice of shape parameters.       *)
(***************************************************************************)
\* idle_frac, gamma_free and x_bep: the defaults among them, shapes whose
\* solved coefficients are kept, shapes that take the fallback curvature,
\* and x_bep at the ends of the range, where the denominator is replaced
PowerIdleFracs == {Zero, DefaultIdleFrac, Rat(1, 2)}

PowerGammas == {One, Rat(6, 5), DefaultGammaFree, R(5)}

PowerXBeps == {Zero, DefaultXBep, Rat(4, 5), One}

PowerSpeeds == {R(4), R(8), R(12)}

\* airflow as a fraction of the free delivery, besides x_bep itself
PowerFractions == {Zero, Rat(1, 2), One}

PowerInit ==
    /\ fan = SimFan
    /\ power_args \in [idle_frac : PowerIdleFracs, gamma_free : PowerGammas,
                        x_bep : PowerXBeps]
    /\ power_ret = NotCalled
    /\ SimIdle
    /\ SolveIdle
    /\ ProbeIdle

\* power_model_convex(fan, Q, rpm, PowerRef, PowerNRef, **power_args) at an
\* airflow that is the fraction f of the free delivery at rpm
PowerCall ==
    /\ \E rpm \in PowerSpeeds, f \in PowerFractions \cup {power_args.x_bep} :
           \E Q \in {RMul(f, free_delivery_cfm(fan, rpm))} :
               power_ret' =
                   [called |-> TRUE, rpm |-> rpm, Q_cfm |-> Q,
                    P |-> power_model_convex(fan, Q, rpm, PowerRef, PowerNRef,
                                             power_args.idle_frac, power_args.gamma_free,
                                             power_args.x_bep)]
    /\ UNCHANGED <<fan, power_args, simVars, solveVars, probeVars>>

PowerSpec == PowerInit /\ [][PowerCall]_vars

(***************************************************************************)
(* Properties of solve_rpm_for_Q and operating_point_Q.                    *)
(***************************************************************************)
WithinTolerance(Q) == RLeq(RAbs(RSub(Q, arg.Q_target)), arg.eps_cfm)

\* C3: a call whose target lies strictly between Q_lo and Q_hi returns an
\* airflow within the tolerance of the target, or has run all MaxIters
\* iterations, none of whose midpoints was within the tolerance, and
\* returns the operating point of the midpoint of the last bracket
C3_BisectionConverges ==
    (spc \in Returned /\ RLt(Q_lo, arg.Q_target) /\ RLt(arg.Q_target, Q_hi)) =>
        \/ WithinTolerance(ret[2])
        \/ /\ spc = "ret_end"
           /\ iter = MaxIters
           /\ Len(trail) = MaxIters
           /\ \A j \in DOMAIN trail : ~WithinTolerance(trail[j])
           /\ ret = <<Midpoint(lo, hi), operating_point_Q(fan, arg.k, Midpoint(lo, hi))>>

\* a call with the target strictly inside and a tolerance >= 0 that ran out
\* of iterations and returned an airflow outside the tolerance
C3_Witness ==
    /\ spc = "ret_end"
    /\ RLt(Q_lo, arg.Q_target) /\ RLt(arg.Q_target, Q_hi)
    /\ RGeq(arg.eps_cfm, Zero)
    /\ ~WithinTolerance(ret[2])

\* C4 as stated: a call whose target is above Q_hi returns exactly
\* (rpm_hi, Q_hi) and leaves a nonzero residual shortfall
C4_AboveHighReturnsHigh ==
    (spc \in Returned /\ RGt(arg.Q_target, Q_hi)) =>
        /\ ret = <<arg.rpm_hi, Q_hi>>
        /\ RGt(Shortfall(ret[2], arg.Q_target, arg.eps_cfm), Zero)

\* C4, amended: a call with a tolerance >= 0 whose target is above Q_hi and
\* above Q_lo by more than the tolerance returns exactly (rpm_hi, Q_hi) from
\* the high clamp and leaves a nonzero residual shortfall
C4_BeyondToleranceReturnsHigh ==
    (/\ spc \in Returned
     /\ RGeq(arg.eps_cfm, Zero)
     /\ RGt(arg.Q_target, RAdd(Q_hi, arg.eps_cfm))
     /\ RGt(arg.Q_target, RAdd(Q_lo, arg.eps_cfm))) =>
        /\ spc = "ret_hi"
        /\ ret = <<arg.rpm_hi, Q_hi>>
        /\ RGt(Shortfall(ret[2], arg.Q_target, arg.eps_cfm), Zero)

\* a call over a proper range with a positive tolerance and the target
\* beyond Q_hi by more than it
C4_Witness ==
    /\ spc = "ret_hi"
    /\ RLt(arg.rpm_lo, arg.rpm_hi) /\ RLt(Q_lo, Q_hi)
    /\ RGt(arg.eps_cfm, Zero)
    /\ RGt(arg.Q_target, RAdd(Q_hi, arg.eps_cfm))

\* C5: a call that has not returned can take a step; once it has returned,
\* the airflow returned is operating_point_Q at the speed returned, and the
\* speed lies within the bounds when rpm_lo <= rpm_hi
C5_ReturnsWithinBounds ==
    /\ spc \in {"call", "loop"} => ENABLED SolveNext
    /\ spc \in Returned =>
           /\ ret[2] = operating_point_Q(fan, arg.k, ret[1])
           /\ RLeq(arg.rpm_lo, arg.rpm_hi) =>
                  RLeq(arg.rpm_lo, ret[1]) /\ RLeq(ret[1], arg.rpm_hi)

\* a call that ran out of iterations and returned a speed strictly inside
\* the bounds, with an airflow of its own
C5_Witness ==
    /\ spc = "ret_end"
    /\ RLt(arg.rpm_lo, ret[1]) /\ RLt(ret[1], arg.rpm_hi)
    /\ ret[2] # Q_lo /\ ret[2] # Q_hi

\* C6: at a fixed fan and a resistance k >= 0, the airflows returned are
\* non-decreasing in speed
C6_MonotoneInSpeed ==
    RGeq(probe_k, Zero) =>
        \A N1 \in DOMAIN Q_seen, N2 \in DOMAIN Q_seen :
            RLeq(N1, N2) => RLeq(Q_seen[N1], Q_seen[N2])

(***************************************************************************)
(* Properties of run_time_sim.                                             *)
(***************************************************************************)
\* the rows the loop has assigned so far
Written == IF pc \in {"loop", "done", "error"} THEN 1..i ELSE {}

\* what each configured speed delivers at resistance k and the power the
\* frame records for it under configuration c; j is its place in speeds_rpm
SpeedTable ==
    UNION {{The({ [c |-> c, k |-> k, j |-> j, rpm |-> c.speeds_rpm[j], Qop |-> Q,
                   P |-> FramePower(SimFan, c, Q, c.speeds_rpm[j])]
                  : Q \in {operating_point_Q(SimFan, k, c.speeds_rpm[j])} })
              : k \in Resistances, j \in DOMAIN c.speeds_rpm}
           : c \in Configs}

\* the configured speeds at the resistance of row r
SpeedsAt(r) == {e \in SpeedTable : e.c = cfg /\ e.k = k_t[r]}

\* the speeds whose airflow is at least the demand of row r less the tolerance
FeasibleAt(r) == {e \in SpeedsAt(r) : IsFeasible(e.Qop, Q_demand[r], cfg.eps_cfm)}

\* C1: in every row where some configured speed is feasible, the mode-switch
\* columns hold a feasible speed whose power, under the configured
\* power-model parameters, is least among the feasible speeds, the first
\* such speed in configured order, with that speed's operating airflow
C1_ModeMinPower ==
    \A r \in Written :
        FeasibleAt(r) # {} =>
            \E e \in FeasibleAt(r) :
                /\ data.rpm_modes[r] = e.rpm
                /\ data.Q_modes[r] = e.Qop
                /\ data.P_modes[r] = e.P
                /\ \A m \in FeasibleAt(r) :
                       /\ RLeq(e.P, m.P)
                       /\ m.j < e.j => RLt(e.P, m.P)

\* C2: in every row where no configured speed is feasible, the mode-switch
\* columns hold the first speed of greatest operating airflow, with that
\* airflow, whatever its power
C2_ModeMaxAirflow ==
    \A r \in Written :
        FeasibleAt(r) = {} =>
            \E e \in SpeedsAt(r) :
                /\ data.rpm_modes[r] = e.rpm
                /\ data.Q_modes[r] = e.Qop
                /\ \A m \in SpeedsAt(r) :
                       /\ RLeq(m.Qop, e.Qop)
                       /\ m.j < e.j => RLt(m.Qop, e.Qop)

\* a row of finite demand that no speed meets, where the speed recorded is
\* not the cheapest one and falls short of the demand
C2_Witness ==
    \E r \in Written :
        /\ FeasibleAt(r) = {}
        /\ ~IsNaN(Q_demand[r])
        /\ RGt(data.s_modes[r], Zero)
        /\ \E m \in SpeedsAt(r) : RLt(m.P, data.P_modes[r])

\* C7: in every frame and for every strategy, a compliant frame has zero
\* shortfall and zero oversupply
C7_CompliantNoResidual ==
    /\ \A p \in Strategies : \A r \in Written :
           data[Col("c", p)][r] =>
               data[Col("s", p)][r] = Zero /\ data[Col("o", p)][r] = Zero
    /\ \A p \in Strategies : \A r \in DOMAIN df :
           df[r][Col("c", p)] =>
               df[r][Col("s", p)] = Zero /\ df[r][Col("o", p)] = Zero

\* a returned frame that is compliant with its airflow away from the demand
C7_Witness ==
    /\ pc = "done"
    /\ \E p \in Strategies : \E r \in DOMAIN df :
           /\ df[r][Col("c", p)]
           /\ df[r][Col("Q", p)] # df[r]["Qd"]

\* the series do not have one finite entry each per timestep
Malformed ==
    \/ Len(Q_demand) # Len(t)
    \/ Len(k_t) # Len(t)
    \/ \E j \in DOMAIN Q_demand : IsNaN(Q_demand[j])
    \/ \E j \in DOMAIN k_t : IsNaN(k_t[j])

\* C8: on series of unequal length or with a non-finite entry no timestep
\* is evaluated and no frames or metrics are returned
C8_FailFast == Malformed => (i = 0 /\ pc # "done")

C10_OneRowPerTimestep ==
    [][/\ (pc = "loop" /\ data' # data) =>
              /\ i' = i + 1
              /\ \A c \in DOMAIN data :
                     /\ DOMAIN data'[c] = DOMAIN data[c]
                     /\ \A r \in DOMAIN data[c] :
                            (r # i + 1 \/ c \in {"t", "Qd", "k"}) => data'[c][r] = data[c][r]
       /\ (pc = "loop" /\ i' # i) => i' = i + 1
       /\ (pc' = "done" /\ pc # "done") =>
              /\ i = Len(t)
              /\ Len(df') = Len(t) /\ Len(Q_demand) = Len(t) /\ Len(k_t) = Len(t)
              /\ \A r \in 1..Len(t) :
                     /\ df'[r]["t"] = t[r]
                     /\ df'[r]["Qd"] = Q_demand[r]
                     /\ df'[r]["k"] = k_t[r]
                     /\ \A c \in OutCols : df'[r][c] = data[c][r]]_vars

\* a frame of two rows returned, its rows different
C10_Witness == pc = "done" /\ Len(df) = MaxT /\ df[1]["Q_var"] # df[MaxT]["Q_var"]

(***************************************************************************)
(* Properties of the metrics run_time_sim returns.                         *)
(***************************************************************************)
\* the sum of column c over the first n rows of the returned frame
RECURSIVE FrameSum(_, _)
FrameSum(c, n) == IF n = 0 THEN Zero ELSE RAdd(FrameSum(c, n - 1), df[n][c])

\* the differences of consecutive timestamps
Gaps == {j \in 1..(Len(t) - 1) : TRUE}

Gap(j) == RSub(t[j + 1], t[j])

\* the gap with at most below gaps smaller and at most above gaps larger
GapRanked(below, above) ==
    Gap(CHOOSE j \in Gaps :
            /\ Cardinality({m \in Gaps : RLt(Gap(m), Gap(j))}) <= below
            /\ Cardinality({m \in Gaps : RGt(Gap(m), Gap(j))}) <= above)

\* the median of the gaps: the middle one, or the mean of the two middle
\* ones; 1 for fewer than two samples
StepDuration ==
    LET n == Cardinality(Gaps)
    IN  IF Len(t) <= 1 THEN One
        ELSE IF n % 2 = 1 THEN GapRanked((n - 1) \div 2, (n - 1) \div 2)
        ELSE RDiv(RAdd(GapRanked(n \div 2 - 1, n \div 2),
                       GapRanked(n \div 2, n \div 2 - 1)), R(2))

\* sum(column) * dt / 3600 over the returned frame
Integrated(c) == RDiv(RMul(FrameSum(c, Len(df)), StepDuration), R(3600))

\* C11: the metrics returned for each strategy are the reductions of that
\* strategy's frame columns with one step duration, the median gap:
\* Wh, cfmh_delivered, cfmh_shortfall and cfmh_oversupply are the sums of
\* power, airflow, shortfall and oversupply times dt / 3600, compliance_pct
\* is 100 * compliant frames / frames, SFP is Wh / max(cfmh_delivered, 1e-9)
\* and objective is Wh + lambda_shortfall * cfmh_shortfall
C11_AggregateConsistency ==
    pc = "done" =>
        \A p \in Strategies :
            /\ metrics[p].Wh = Integrated(Col("P", p))
            /\ metrics[p].cfmh_delivered = Integrated(Col("Q", p))
            /\ metrics[p].cfmh_shortfall = Integrated(Col("s", p))
            /\ metrics[p].cfmh_oversupply = Integrated(Col("o", p))
            /\ Len(df) > 0 =>
                   metrics[p].compliance_pct =
                       Rat(100 * Cardinality({r \in DOMAIN df : df[r][Col("c", p)]}), Len(df))
            /\ metrics[p].SFP =
                   RDiv(Integrated(Col("P", p)), MaxEps9(Integrated(Col("Q", p))))
            /\ metrics[p].objective =
                   RAdd(Integrated(Col("P", p)),
                        RMul(cfg.lambda_shortfall, Integrated(Col("s", p))))

\* metrics returned over four samples whose median gap is neither the first
\* gap nor 1, with some frames compliant and others short of the demand
C11_Witness ==
    /\ pc = "done"
    /\ Len(t) = 4
    /\ StepDuration # Gap(1) /\ StepDuration # One
    /\ RGt(metrics.var.cfmh_shortfall, Zero)
    /\ RGt(metrics.var.compliance_pct, Zero) /\ RLt(metrics.var.compliance_pct, R(100))
    /\ RGt(metrics.var.SFP, Zero)

(***************************************************************************)
(* Properties of operating_point_Q.                                        *)
(***************************************************************************)
\* fan pressure less system pressure at sample j of the grid at speed N
Excess(N, j) ==
    LET Q == Linspace(free_delivery_cfm(fan, N), j)
    IN  RSub(dP_at(fan, Q, N), RMul(probe_k, RPow(Q, 2)))

\* the curves cross between the first and the last interior sample
CrossesInside(N) == RGeq(Excess(N, 1), Zero) /\ RLeq(Excess(N, NGrid - 2), Zero)

\* a running fan against a duct of positive resistance
Running(N) ==
    /\ RGt(shutoff_pressure_Pa(fan, N), Zero)
    /\ RGt(N, Zero)
    /\ RGt(probe_k, Zero)

StrictlyInside(N) ==
    RGt(Q_seen[N], Zero) /\ RLt(Q_seen[N], free_delivery_cfm(fan, N))

ReferencePower == RMul(PowerRef, RPow(RDiv(power_ret.rpm, PowerNRef), 3))

AtFreeDelivery == power_ret.Q_cfm = free_delivery_cfm(fan, power_ret.rpm)

AtBep ==
    RDiv(power_ret.Q_cfm, free_delivery_cfm(fan, power_ret.rpm)) = power_args.x_bep

\* the curvature that solves the two constraints, for 0 < x_bep < 1
SolvedB2 ==
    RDiv(RSub(RSub(One, power_args.idle_frac),
              RMul(power_args.x_bep, RSub(power_args.gamma_free, power_args.idle_frac))),
         RSub(RPow(power_args.x_bep, 2), power_args.x_bep))

\* 0 < x_bep < 1 and the solved coefficients are kept: b2 > 0, b1 + 2*b2 > 0
SolvedShapeKept ==
    /\ RGt(power_args.x_bep, Zero) /\ RLt(power_args.x_bep, One)
    /\ RGt(SolvedB2, Zero)
    /\ RGt(RAdd(RSub(power_args.gamma_free, power_args.idle_frac), SolvedB2), Zero)

FeasibleSeen ==
    {N \in {mode_sel.speeds_rpm[j] : j \in DOMAIN mode_sel.speeds_rpm} :
        IsFeasible(Q_seen[N], mode_sel.Q_target, ProbeTolerance)}

\* the grid search returned the same fraction of the free delivery at N and M
SameFraction(N, M) ==
    RMul(Q_seen[N], free_delivery_cfm(fan, M)) = RMul(Q_seen[M], free_delivery_cfm(fan, N))

LowestFeasible ==
    /\ mode_sel.rpm \in FeasibleSeen
    /\ \A N \in FeasibleSeen : RLeq(mode_sel.rpm, N)

LowClampHolds ==
    RLeq(arg.Q_target, RAdd(operating_point_Q(fan, arg.k, arg.rpm_lo), arg.eps_cfm))

\* the high-clamp condition of the call: target >= Q(rpm_hi) - tolerance
HighClampHolds ==
    RGeq(arg.Q_target, RSub(operating_point_Q(fan, arg.k, arg.rpm_hi), arg.eps_cfm))

\* C15: a call whose target is at most the operating airflow at rpm_lo plus
\* the tolerance never enters the bisection loop and returns exactly
\* (rpm_lo, operating airflow at rpm_lo), also when the high-clamp
\* condition holds as well
C15_LowClampFirst ==
    (spc # "idle" /\ LowClampHolds) =>
        /\ spc \in {"call", "ret_lo"}
        /\ iter = 0 /\ trail = << >>
        /\ spc = "ret_lo" =>
               ret = <<arg.rpm_lo, operating_point_Q(fan, arg.k, arg.rpm_lo)>>

\* a call over a proper range that returned from the low clamp although the
\* high-clamp condition held too, the two airflows being different
C15_Witness ==
    /\ spc = "ret_lo"
    /\ LowClampHolds /\ HighClampHolds
    /\ RLt(arg.rpm_lo, arg.rpm_hi)
    /\ Q_lo # Q_hi

(***************************************************************************)
(* The grid search as the solver calls it.                                 *)
(***************************************************************************)
\* the <<speed, airflow>> pairs of the evaluations whose result the call holds
Evaluated ==
    (IF spc \in {"loop"} \cup Returned
     THEN {<<arg.rpm_lo, Q_lo>>, <<arg.rpm_hi, Q_hi>>} ELSE {})
    \cup (IF spc \in Returned THEN {<<ret[1], ret[2]>>} ELSE {})

\* |fan pressure - k * Q^2| at airflow Q and speed N
CurveGap(Q, N) == RAbs(RSub(dP_at(fan, Q, N), RMul(arg.k, RMul(Q, Q))))

\* the uniformly spaced samples of [0, free delivery at N]
Samples(N) ==
    {RDiv(RMul(R(j), free_delivery_cfm(fan, N)), R(NGrid - 1)) : j \in 0..(NGrid - 1)}

\* C16: an evaluation returns 0 when the free delivery at its speed is at
\* most 1e-9; otherwise, for a resistance that is a number, it returns one
\* of the NGrid uniformly spaced samples of [0, free delivery], between 0
\* and the free delivery, at which |fan pressure - k * Q^2| is least over
\* all samples, and the one of lowest airflow among those of least error
C16_GridSearchResult ==
    \A e \in Evaluated :
        IF LeqEps9(free_delivery_cfm(fan, e[1]))
        THEN e[2] = Zero
        ELSE ~IsNaN(arg.k) =>
                 /\ e[2] \in Samples(e[1])
                 /\ RGeq(e[2], Zero) /\ RLeq(e[2], free_delivery_cfm(fan, e[1]))
                 /\ \A Q \in Samples(e[1]) :
                        /\ RLeq(CurveGap(e[2], e[1]), CurveGap(Q, e[1]))
                        /\ CurveGap(Q, e[1]) = CurveGap(e[2], e[1]) => RLeq(e[2], Q)

\* a call from standstill that returned a speed at which two samples have
\* the least error, with the lower of the two as its airflow
C16_Witness ==
    /\ spc \in Returned
    /\ arg.rpm_lo = Zero /\ Q_lo = Zero
    /\ \E Q \in Samples(ret[1]) :
           /\ CurveGap(Q, ret[1]) = CurveGap(ret[2], ret[1])
           /\ RLt(ret[2], Q)
    /\ RGt(ret[2], Zero)

(***************************************************************************)
(* Termination.                                                            *)
(***************************************************************************)
\* C17: every call of solve_rpm_for_Q returns, having run at most MaxIters
\* iterations and evaluated operating_point_Q at most MaxIters + 3 times;
\* every call of run_time_sim ends, having run at most T loop iterations,
\* and a call on three series of T entries each returns after exactly T
C17_Terminates ==
    /\ [](iter <= MaxIters /\ evals <= MaxIters + 3)
    /\ (spc = "call") ~> (spc \in Returned)
    /\ [](pc \in {"loop", "done", "error"} => i <= T)
    /\ [](pc = "done" => i = T)
    /\ (pc = "entry") ~> (pc \in {"done", "error"})
    /\ (pc = "entry" /\ Len(Q_demand) = T /\ Len(k_t) = T) ~> (pc = "done" /\ i = T)

\* a call of the solver that used every iteration and every evaluation
C17_Witness ==
    /\ spc = "ret_end"
    /\ iter = MaxIters
    /\ evals = MaxIters + 3
    /\ Len(trail) = MaxIters

(***************************************************************************)
(* C18                                                                     *)
(***************************************************************************)
\* C18: with a tolerance >= 0, in every frame and for every strategy the
\* frame is compliant exactly when its shortfall and its oversupply are both
\* zero, and shortfall and oversupply are never both positive
C18_ComplianceIffNoResidual ==
    (pc \in {"loop", "done", "error"} /\ RLeq(Zero, cfg.eps_cfm)) =>
        \A p \in Strategies : \A r \in Written :
            /\ data[Col("c", p)][r] <=>
                   (data[Col("s", p)][r] = Zero /\ data[Col("o", p)][r] = Zero)
            /\ ~(RLt(Zero, data[Col("s", p)][r]) /\ RLt(Zero, data[Col("o", p)][r]))

(***************************************************************************)
(* C19                                                                     *)
(***************************************************************************)
\* the loop of solve_rpm_for_Q is about to start an iteration
AtLoopHead == spc = "loop" /\ iter < MaxIters

\* the bracket lies in the range with lo below hi, its width is the range's
\* halved once per completed iteration, and the airflows at its two ends lie
\* outside the tolerance band on either side of the target
BracketHolds ==
    /\ RLeq(arg.rpm_lo, lo) /\ RLt(lo, hi) /\ RLeq(hi, arg.rpm_hi)
    /\ RSub(hi, lo) = RDiv(RSub(arg.rpm_hi, arg.rpm_lo), R(2 ^ iter))
    /\ RLt(operating_point_Q(fan, arg.k, lo), RSub(arg.Q_target, arg.eps_cfm))
    /\ RGt(operating_point_Q(fan, arg.k, hi), RAdd(arg.Q_target, arg.eps_cfm))

\* C19 as stated: at the start of every iteration of the loop in
\* solve_rpm_for_Q, rpm_lo <= lo < hi <= rpm_hi, hi - lo is
\* (rpm_hi - rpm_lo) / 2^iter, the airflow at lo is below Q_target - eps_cfm
\* and the airflow at hi is above Q_target + eps_cfm
C19_BracketInvariant == AtLoopHead => BracketHolds

\* C19, amended: the same at the start of every iteration of a call with
\* rpm_lo < rpm_hi and a target and a tolerance that are numbers
C19_BracketInvariantOfProperCall ==
    (/\ AtLoopHead
     /\ RLt(arg.rpm_lo, arg.rpm_hi)
     /\ ~IsNaN(arg.Q_target) /\ ~IsNaN(arg.eps_cfm)) => BracketHolds

\* a call over a proper range for a target that is a number, two iterations
\* completed, one of which raised lo and the other lowered hi
C19_Witness ==
    /\ AtLoopHead /\ iter = 2
    /\ RLt(arg.rpm_lo, arg.rpm_hi) /\ ~IsNaN(arg.Q_target)
    /\ lo # arg.rpm_lo /\ hi # arg.rpm_hi

=============================================================================
